---- MODULE Spec2Model ----
(***************************************************************************)
(* Model of the audio normalisation pipeline of StreessLevelIA:            *)
(*   src/audio_utils.py      AudioData, rechannel, resample, pad_trunc,    *)
(*                           process_audio and the module parameters       *)
(*   src/spectogram_utils.py create_spectogram                             *)
(*                                                                         *)
(* AudioData objects live in a heap (a sequence of records, a reference is *)
(* an index) so that "returns the input itself" and "returns a new object" *)
(* are different outcomes.  A tensor is a sequence of rows (channels),     *)
(* each row a sequence of samples; tensors are never written in place by   *)
(* the code, so they are modelled as values.                               *)
(*                                                                         *)
(* A caller owns one decoded waveform (reference 1) and makes up to two    *)
(* calls, the second one on the AudioData the first one returned.          *)
(***************************************************************************)
EXTENDS Integers, Naturals, Sequences, FiniteSets, TLC

VARIABLES heap, audio, calls

vars == <<heap, audio, calls>>

----------------------------------------------------------------------------
(* Module parameters, src/audio_utils.py:15-17.                            *)

new_channel == 2

new_sr == 16000

\* The source sets max_ms = 10000 (a clip is 160000 samples).  The model
\* keeps the clip 1 ms long (16 samples at new_sr) so that the padded and
\* truncated tensors can be enumerated; pad_trunc itself is also called
\* with other durations, see Durations.
max_ms == 1

----------------------------------------------------------------------------
(* Bounds and input sets.                                                  *)

MaxChannels == 3

Channels == 1..MaxChannels

SampleRates == {1500, 16000}

Lens == {0, 1, 17}

Patterns == {"zero", "ramp"}

TargetChannels == 1..MaxChannels

TargetRates == {8000, 16000}

Durations == {-1, 0, 1, 2}

\* Python's None (an absent hop_len) is the empty tuple, a given hop_len h is <<h>>.
None == <<>>

MelBands == {1, 64}

FftSizes == {4, 5, 8}

HopLens == {None, <<3>>}

\* Value of a local variable that the executed branch never assigned.
Unassigned == -1

----------------------------------------------------------------------------
(* Tensor operations used by the code.                                     *)

\* tensor.shape[0]
shape0(signal) == Len(signal)

\* tensor.shape[1]
shape1(signal) == IF Len(signal) = 0 THEN 0 ELSE Len(signal[1])

\* Python slice bound: a negative stop counts from the end, then clamp.
PyStop(stop, n) ==
    IF stop < 0 THEN (IF n + stop < 0 THEN 0 ELSE n + stop)
    ELSE (IF stop > n THEN n ELSE stop)

\* signal[:stop, :]
RowsTo(signal, stop) == SubSeq(signal, 1, PyStop(stop, Len(signal)))

\* signal[start:, :]  (start >= 0)
RowsFrom(signal, start) ==
    SubSeq(signal, (IF start > Len(signal) THEN Len(signal) ELSE start) + 1, Len(signal))

\* signal[:, :stop]
ColsTo(signal, stop) ==
    [r \in 1..Len(signal) |-> SubSeq(signal[r], 1, PyStop(stop, Len(signal[r])))]

\* torch.cat([a, b])  (along dimension 0)
cat0(a, b) == a \o b

\* A torch.cat with its arguments in the wrong order: the signal first.
cat1_signal_first(a, b, c) == [r \in 1..Len(b) |-> b[r] \o a[r] \o c[r]]

\* torch.cat((a, b, c), 1)
cat1(a, b, c) == [r \in 1..Len(b) |-> a[r] \o b[r] \o c[r]]

\* torch.zeros((rows, cols))
zeros(rows, cols) == [r \in 1..rows |-> [c \in 1..cols |-> 0]]

\* random.randint(a, b): the set of values it can return (both ends included)
randint(a, b) == a..b

----------------------------------------------------------------------------
(* AudioData, src/audio_utils.py:6-9, and allocation of a new object.      *)

AudioData(signal, sample_rate) == [signal |-> signal, sample_rate |-> sample_rate]

New(h, obj) == [heap |-> Append(h, obj), ref |-> Len(h) + 1]

----------------------------------------------------------------------------
(* rechannel, src/audio_utils.py:19-29.  Every operation takes the heap    *)
(* and the reference of its argument and returns the new heap, the         *)
(* reference it returns and the branches it took.                          *)

\* A rechannel that keeps the last channel, not the first, for a mono target.
rechannel_last(h, audio_data, channel) ==
    LET signal == h[audio_data].signal IN
    IF shape0(signal) = channel
    THEN [heap |-> h, ref |-> audio_data, branch |-> <<"same">>]
    ELSE LET resig == IF channel = 1
                      THEN RowsFrom(signal, Len(signal) - 1)
                      ELSE cat0(signal, signal)
             made == New(h, AudioData(resig, h[audio_data].sample_rate))
         IN [heap |-> made.heap, ref |-> made.ref,
             branch |-> <<IF channel = 1 THEN "first" ELSE "cat">>]

rechannel(h, audio_data, channel) ==
    LET signal == h[audio_data].signal IN
    IF shape0(signal) = channel
    THEN [heap |-> h, ref |-> audio_data, branch |-> <<"same">>]
    ELSE LET resig == IF channel = 1
                      THEN RowsTo(signal, 1)
                      ELSE cat0(signal, signal)
             made == New(h, AudioData(resig, h[audio_data].sample_rate))
         IN [heap |-> made.heap, ref |-> made.ref,
             branch |-> <<IF channel = 1 THEN "first" ELSE "cat">>]

----------------------------------------------------------------------------
(* resample, src/audio_utils.py:31-43.                                     *)

\* torchaudio.transforms.Resample(orig_freq, new_freq)(tensor): a library
\* call.  Each row is converted on its own and gets
\* ceil(new_freq * length / orig_freq) samples.  The sample values (a
\* windowed-sinc interpolation of reals) are abstracted to the input sample
\* nearest before each output instant; no property below reads them.
ResampleLen(length, orig_freq, new_freq) ==
    (new_freq * length + orig_freq - 1) \div orig_freq

Resample(orig_freq, new_freq, tensor) ==
    [r \in 1..Len(tensor) |->
        [i \in 1..ResampleLen(Len(tensor[r]), orig_freq, new_freq) |->
            tensor[r][((i - 1) * orig_freq) \div new_freq + 1]]]

\* A resample that stores its result in the AudioData it was given.
resample_in_place(h, audio_data, newsr) ==
    LET a == h[audio_data] IN
    IF a.sample_rate = newsr
    THEN [heap |-> h, ref |-> audio_data, branch |-> <<"same">>]
    ELSE LET num_channels == shape0(a.signal)
             first == Resample(a.sample_rate, newsr, RowsTo(a.signal, 1))
             resig == IF num_channels > 1
                      THEN cat0(first, Resample(a.sample_rate, newsr, RowsFrom(a.signal, 1)))
                      ELSE first
         IN [heap |-> [h EXCEPT ![audio_data] = AudioData(resig, newsr)],
             ref |-> audio_data, branch |-> <<"resampled">>]

resample(h, audio_data, newsr) ==
    LET a == h[audio_data] IN
    IF a.sample_rate = newsr
    THEN [heap |-> h, ref |-> audio_data, branch |-> <<"same">>]
    ELSE LET num_channels == shape0(a.signal)
             first == Resample(a.sample_rate, newsr, RowsTo(a.signal, 1))
             resig == IF num_channels > 1
                      THEN cat0(first, Resample(a.sample_rate, newsr, RowsFrom(a.signal, 1)))
                      ELSE first
             made == New(h, AudioData(resig, newsr))
         IN [heap |-> made.heap, ref |-> made.ref, branch |-> <<"resampled">>]

----------------------------------------------------------------------------
(* pad_trunc, src/audio_utils.py:45-61.  rand is the value random.randint  *)
(* returns in the padding branch; PadChoices is the set it is drawn from.  *)

max_len_of(a, ms) == (a.sample_rate \div 1000) * ms

PadChoices(h, audio_data, ms) ==
    LET a == h[audio_data]
        sig_len == shape1(a.signal)
        max_len == max_len_of(a, ms)
    IN IF ~(sig_len > max_len) /\ sig_len < max_len
       THEN randint(0, max_len - sig_len)
       ELSE {Unassigned}

pad_trunc(h, audio_data, ms, rand) ==
    LET a == h[audio_data]
        num_rows == shape0(a.signal)
        sig_len == shape1(a.signal)
        max_len == max_len_of(a, ms)
    IN IF sig_len > max_len
       THEN LET made == New(h, AudioData(ColsTo(a.signal, max_len), a.sample_rate))
            IN [heap |-> made.heap, ref |-> made.ref, branch |-> <<"trunc">>,
                pad_begin_len |-> Unassigned, pad_end_len |-> Unassigned]
       ELSE IF sig_len < max_len
       THEN LET pad_begin_len == rand
                pad_end_len == max_len - sig_len - pad_begin_len
                pad_begin == zeros(num_rows, pad_begin_len)
                pad_end == zeros(num_rows, pad_end_len)
                made == New(h, AudioData(cat1(pad_begin, a.signal, pad_end), a.sample_rate))
            IN [heap |-> made.heap, ref |-> made.ref, branch |-> <<"pad">>,
                pad_begin_len |-> pad_begin_len, pad_end_len |-> pad_end_len]
       ELSE LET made == New(h, AudioData(a.signal, a.sample_rate))
            IN [heap |-> made.heap, ref |-> made.ref, branch |-> <<"equal">>,
                pad_begin_len |-> Unassigned, pad_end_len |-> Unassigned]

----------------------------------------------------------------------------
(* process_audio, src/audio_utils.py:63-74.                                *)

\* The AudioData that reaches pad_trunc inside process_audio.
Resampled(h, audio_data) ==
    LET s1 == rechannel(h, audio_data, new_channel)
    IN resample(s1.heap, s1.ref, new_sr)

ProcessPadChoices(h, audio_data) ==
    LET s2 == Resampled(h, audio_data) IN PadChoices(s2.heap, s2.ref, max_ms)

process_audio(h, audio_data, rand) ==
    LET s1 == rechannel(h, audio_data, new_channel)
        s2 == resample(s1.heap, s1.ref, new_sr)
        s3 == pad_trunc(s2.heap, s2.ref, max_ms, rand)
    IN [heap |-> s3.heap, ref |-> s3.ref,
        branch |-> s1.branch \o s2.branch \o s3.branch,
        pad_begin_len |-> s3.pad_begin_len, pad_end_len |-> s3.pad_end_len]

----------------------------------------------------------------------------
(* create_spectogram, src/spectogram_utils.py:6-31.                        *)

\* torchaudio.transforms.MelSpectrogram(sample_rate, n_fft, hop_length,
\* n_mels)(signal) followed by AmplitudeToDB, as far as the shape goes:
\* win_length is n_fft, an absent hop_length is win_length // 2, the STFT is
\* centred with n_fft // 2 reflected samples on each side (which needs more
\* than n_fft // 2 samples), and AmplitudeToDB keeps the shape.
MelSpectrogram(n_fft, hop_length, n_mels, signal) ==
    LET win_length == n_fft
        hop == IF hop_length = None THEN win_length \div 2 ELSE hop_length[1]
        pad == n_fft \div 2
        length == shape1(signal)
    IN IF length <= pad
       THEN [raised |-> "RuntimeError", shape |-> <<>>]
       ELSE [raised |-> "none",
             shape |-> <<shape0(signal), n_mels,
                         1 + (length + 2 * pad - n_fft) \div hop>>]

\* A create_spectogram that fills in an absent hop_len with n_fft // 4 itself.
create_spectogram_quarter_hop(h, audio_data, n_mels, n_fft, hop_len) ==
    MelSpectrogram(n_fft, IF hop_len = None THEN <<n_fft \div 4>> ELSE hop_len,
                   n_mels, h[audio_data].signal)

create_spectogram(h, audio_data, n_mels, n_fft, hop_len) ==
    MelSpectrogram(n_fft, hop_len, n_mels, h[audio_data].signal)

----------------------------------------------------------------------------
(* The caller.  heap holds every AudioData made so far, audio is the       *)
(* reference the caller passes to its next call (0 once the spectrogram,   *)
(* the pipeline's final artifact, has been requested), and calls records   *)
(* each call made: its arguments, the argument object as it was before the *)
(* call (pre), what it returned and the locals of pad_trunc.               *)

MaxCalls == 2

\* A decoded waveform: "zero" is silence, "ramp" gives every sample of every
\* channel a different non-zero value.
Signal(pattern, channels, length) ==
    [c \in 1..channels |->
        [i \in 1..length |-> IF pattern = "zero" THEN 0 ELSE 100 * c + i]]

Inputs ==
    {AudioData(Signal(p, c, n), sr) : p \in Patterns, c \in Channels,
                                       n \in Lens, sr \in SampleRates}

Call(op, arg, r) ==
    [op |-> op, arg |-> arg, in |-> audio, pre |-> heap[audio],
     out |-> r.ref, branch |-> r.branch,
     pad_begin_len |-> r.pad_begin_len, pad_end_len |-> r.pad_end_len,
     raised |-> r.raised, shape |-> r.shape]

\* Fields an operation does not produce.
NoPad == [pad_begin_len |-> Unassigned, pad_end_len |-> Unassigned]

Returned == [raised |-> "none", shape |-> <<>>]

CanCall == audio # 0 /\ Len(calls) < MaxCalls

Init ==
    /\ \E a \in Inputs : heap = <<a>>
    /\ audio = 1
    /\ calls = <<>>

Rechannel ==
    /\ CanCall
    /\ \E channel \in TargetChannels :
         LET r == rechannel(heap, audio, channel) IN
         /\ heap' = r.heap
         /\ audio' = r.ref
         /\ calls' = Append(calls, Call("rechannel", <<channel>>, r @@ NoPad @@ Returned))

DoResample ==
    /\ CanCall
    /\ \E newsr \in TargetRates :
         LET r == resample(heap, audio, newsr) IN
         /\ heap' = r.heap
         /\ audio' = r.ref
         /\ calls' = Append(calls, Call("resample", <<newsr>>, r @@ NoPad @@ Returned))

PadTrunc ==
    /\ CanCall
    /\ \E ms \in Durations :
         \E rand \in PadChoices(heap, audio, ms) :
           LET r == pad_trunc(heap, audio, ms, rand) IN
           /\ heap' = r.heap
           /\ audio' = r.ref
           /\ calls' = Append(calls, Call("pad_trunc", <<ms>>, r @@ Returned))

ProcessAudio ==
    /\ CanCall
    /\ \E rand \in ProcessPadChoices(heap, audio) :
         LET r == process_audio(heap, audio, rand) IN
         /\ heap' = r.heap
         /\ audio' = r.ref
         /\ calls' = Append(calls, Call("process_audio", <<>>, r @@ Returned))

CreateSpectogram ==
    /\ CanCall
    /\ \E n_mels \in MelBands, n_fft \in FftSizes, hop_len \in HopLens :
         LET r == create_spectogram(heap, audio, n_mels, n_fft, hop_len) IN
         /\ heap' = heap
         /\ audio' = 0
         /\ calls' = Append(calls,
                Call("create_spectogram", <<n_mels, n_fft>> \o hop_len,
                     r @@ NoPad @@ [ref |-> 0, branch |-> <<>>]))

Next == Rechannel \/ DoResample \/ PadTrunc \/ ProcessAudio \/ CreateSpectogram

Spec == Init /\ [][Next]_vars

----------------------------------------------------------------------------
(* Properties.                                                             *)

CallsOf(op) == {i \in DOMAIN calls : calls[i].op = op}

\* The AudioData call i returned, as it is now.
Out(i) == heap[calls[i].out]

\* Two consecutive calls of op with the same arguments, the second on the
\* result of the first.
Repeated(op) ==
    {i \in DOMAIN calls : /\ i + 1 \in DOMAIN calls
                          /\ calls[i].op = op /\ calls[i + 1].op = op
                          /\ calls[i].arg = calls[i + 1].arg
                          /\ calls[i + 1].in = calls[i].out}

\* The channel conversions the specification supports: identity, any -> 1, 1 -> 2.
Supported(from, to) == from = to \/ to = 1 \/ (from = 1 /\ to = 2)

\* C1: process_audio returns, for every input waveform, exactly new_channel
\* channels at sample rate new_sr with new_sr // 1000 * max_ms samples each.
C1_ProcessShape ==
    \A i \in CallsOf("process_audio") :
        /\ shape0(Out(i).signal) = new_channel
        /\ Out(i).sample_rate = new_sr
        /\ shape1(Out(i).signal) = (new_sr \div 1000) * max_ms

\* C2: pad_trunc returns, for every waveform and every duration, a waveform
\* of exactly sample_rate // 1000 * ms samples per channel, with the channel
\* count and sample rate of its argument.
C2_PadTruncLength ==
    \A i \in CallsOf("pad_trunc") :
        /\ shape1(Out(i).signal) = (calls[i].pre.sample_rate \div 1000) * calls[i].arg[1]
        /\ shape0(Out(i).signal) = shape0(calls[i].pre.signal)
        /\ Out(i).sample_rate = calls[i].pre.sample_rate

\* C3: in the padding branch of pad_trunc, whatever random.randint returns,
\* 0 <= pad_begin_len <= deficit, pad_begin_len + pad_end_len = deficit, and
\* every output channel is pad_begin_len zeros, the channel's own samples in
\* order, then pad_end_len zeros.
C3_PadSplit ==
    \A i \in CallsOf("pad_trunc") :
        calls[i].branch = <<"pad">> =>
            LET w == calls[i].pre
                deficit == (w.sample_rate \div 1000) * calls[i].arg[1] - shape1(w.signal)
                b == calls[i].pad_begin_len
                e == calls[i].pad_end_len
            IN /\ 0 <= b /\ b <= deficit
               /\ b + e = deficit
               /\ Len(Out(i).signal) = Len(w.signal)
               /\ \A c \in DOMAIN w.signal :
                    /\ Len(Out(i).signal[c]) = b + Len(w.signal[c]) + e
                    /\ \A k \in 1..Len(Out(i).signal[c]) :
                         Out(i).signal[c][k] =
                            IF k <= b \/ k > b + Len(w.signal[c])
                            THEN 0 ELSE w.signal[c][k - b]

C3_Witness ==
    \E i \in CallsOf("pad_trunc") :
        /\ calls[i].branch = <<"pad">>
        /\ calls[i].pad_begin_len > 0 /\ calls[i].pad_end_len > 0
        /\ shape0(calls[i].pre.signal) = 2
        /\ shape1(calls[i].pre.signal) > 0
        /\ calls[i].pre.signal[1][1] # 0

\* C4: rechannel rejects every conversion outside the supported set with
\* UnsupportedChannelConversion and returns no waveform.
C4_RejectsUnsupported ==
    \A i \in CallsOf("rechannel") :
        ~Supported(shape0(calls[i].pre.signal), calls[i].arg[1]) =>
            calls[i].raised = "UnsupportedChannelConversion" /\ calls[i].out = 0

\* C5: rechannel applied twice with the same target returns, the second
\* time, a waveform equal to the one the first call returned.
C5_RechannelIdempotent ==
    \A i \in Repeated("rechannel") : Out(i + 1) = Out(i)

\* C6: a second pass of process_audio over its own result takes the
\* unchanged branch in every stage and returns an equal waveform.
C6_SecondPassNoOp ==
    \A i \in Repeated("process_audio") :
        /\ calls[i + 1].branch = <<"same", "same", "equal">>
        /\ Out(i + 1) = Out(i)

\* C7: for target 1 (any input) and for target 2 with a 1-channel input,
\* rechannel returns exactly the target number of channels, each a copy of
\* input channel 0, at the input's sample rate.
C7_FirstChannelCopies ==
    \A i \in CallsOf("rechannel") :
        LET w == calls[i].pre
            to == calls[i].arg[1]
        IN (to = 1 \/ (to = 2 /\ shape0(w.signal) = 1)) =>
            /\ shape0(Out(i).signal) = to
            /\ \A c \in 1..to : Out(i).signal[c] = w.signal[1]
            /\ Out(i).sample_rate = w.sample_rate

C7_Witness ==
    /\ Len(calls) = 2
    /\ calls[1].op = "rechannel" /\ calls[1].branch = <<"first">>
    /\ shape0(calls[1].pre.signal) = 3
    /\ calls[1].pre.signal[1] # calls[1].pre.signal[2]
    /\ calls[2].op = "rechannel" /\ calls[2].branch = <<"cat">>
    /\ calls[2].arg = <<2>>

\* Frames of a centred STFT over length samples.
Frames(length, n_fft, hop) ==
    IF n_fft % 2 = 0 THEN length \div hop + 1 ELSE (length - 1) \div hop + 1

\* The hop length of call i when an absent hop_len stands for n_fft // d.
HopOf(i, d) ==
    IF Len(calls[i].arg) = 3 THEN calls[i].arg[3] ELSE calls[i].arg[2] \div d

C9_RejectsNonPositive ==
    \A i \in CallsOf("pad_trunc") :
        calls[i].arg[1] <= 0 =>
            calls[i].raised = "InvalidDuration" /\ calls[i].out = 0

\* C10: after any call of rechannel, resample, pad_trunc or process_audio,
\* in any branch, the AudioData the caller passed in has the signal and the
\* sample rate it had before the call.
C10_InputUntouched ==
    \A i \in DOMAIN calls :
        calls[i].op \in {"rechannel", "resample", "pad_trunc", "process_audio"} =>
            heap[calls[i].in] = calls[i].pre

C10_Witness ==
    /\ Len(calls) = 2
    /\ calls[1].op = "rechannel" /\ calls[1].out = calls[1].in
    /\ calls[2].op = "process_audio"
    /\ calls[2].branch = <<"same", "resampled", "pad">>
    /\ calls[2].in = 1

====
